---- MODULE Spec2Model ----
(***************************************************************************)
(* Model of the DCGM session wrapper, src/src/dcgm_bindings/mod.rs.        *)
(*                                                                         *)
(* The wrapper (DcgmLibSafe) owns one connection handle and a stop mode;   *)
(* every method is a checked call into the native library.  The native     *)
(* library is the environment: each native call returns a status chosen    *)
(* nondeterministically, errorString returns a string or a null pointer,   *)
(* and a successful connect writes a non-zero handle.                      *)
(*                                                                         *)
(* One action models one caller-visible operation.  The variables `op`,    *)
(* `calls` and `res` record the operation that just ran: its inputs, the   *)
(* native calls it issued in order, and what it returned (Ok, Err or a     *)
(* panic).  Return is the caller taking the result; after a panic the      *)
(* process is gone and nothing further happens.                            *)
(***************************************************************************)
EXTENDS Integers, Sequences, FiniteSets, TLC

VARIABLES
    DCGM_LIB,   \* lazy static: "uninit", "Ok" (library loaded) or "Err"
    session,    \* the DcgmLibSafe most recently returned by new
    origin,     \* native side: which connect call wrote session.handle
    ctor,       \* the mode given to the new that returned the session
    op,         \* the operation that just ran and its inputs, or Idle
    calls,      \* the native calls that operation made, in order
    res,        \* the result it hands to the caller
    alive,      \* FALSE once an operation has panicked
    loadRuns    \* how many times the initialiser of DCGM_LIB has run

vars == <<DCGM_LIB, session, origin, ctor, op, calls, res, alive, loadRuns>>

----------------------------------------------------------------------------
(* Bounds and input pools *)

MaxArgs == 4

\* Argument strings are sequences of characters.  "NUL" is the zero byte.
AddrPool == { <<"a">>, <<"a", "NUL">> }
FlagPool == { <<"0">>, <<"+", "1">>, <<"x">> }
RestPool == { <<"1">> }

ArgPoolAt(i) ==
    IF i = 1 THEN AddrPool ELSE IF i <= 3 THEN FlagPool ELSE RestPool

ArgLists ==
    UNION { { a \in [1..n -> AddrPool \cup FlagPool \cup RestPool] :
                \A i \in 1..n : a[i] \in ArgPoolAt(i) } : n \in 0..MaxArgs }

Modes == {"Embedded", "Standalone", "StartHostengine"}

\* Status codes of the native library (dcgmReturn_t), by name.
ST_OK == "DCGM_ST_OK"
ST_NOT_SUPPORTED == "DCGM_ST_NOT_SUPPORTED"
ST_BADPARAM == "DCGM_ST_BADPARAM"
Status == {ST_OK, ST_NOT_SUPPORTED, ST_BADPARAM}
ErrStatus == Status \ {ST_OK}

\* Handles a successful native connect may write.
NativeHandles == {1, 2}

\* Device ids offered to selectGpusByTopology, and the sizes asked for.
IdPool == {0, 1, 63, 64}
NumGpusPool == {1, 2}

\* Device ids offered to the attribute and topology queries.
GpuIdPool == {0, 1}

\* Group and field-group names; field id lists.
NamePool == { <<"g">>, <<"g", "NUL">> }
FieldIdLists == { <<>>, <<150>>, <<150, 155>> }

----------------------------------------------------------------------------
(* Results and errors *)

\* DCGMError::from(&str)
StaticErr(text) == [src |-> "static", text |-> text, code |-> "-"]
\* DCGMError::from(get_error_msg(code)), errorString returned a string
NativeErr(code) == [src |-> "native", text |-> "errorString", code |-> code]
\* DCGMError::from(get_error_msg(code)), errorString returned null
UnknownErr(code) == [src |-> "unknown", text |-> "Unknown DCGM error", code |-> code]
NoMsg == [src |-> "-", text |-> "-", code |-> "-"]

Ok(v) == [kind |-> "Ok", msg |-> NoMsg, val |-> v]
Err(m) == [kind |-> "Err", msg |-> m, val |-> <<>>]
Panic == [kind |-> "Panic", msg |-> NoMsg, val |-> <<>>]
Unit == <<>>

\* A native call: the function, its argument of interest, the status returned.
Call(fn, arg, st) == [fn |-> fn, arg |-> arg, st |-> st]

\* What a method did: the native calls, the result, and the handle it left.
Out(cs, r, h, o) == [calls |-> cs, res |-> r, handle |-> h, origin |-> o]

Fns(cs) == [i \in 1..Len(cs) |-> cs[i].fn]

\* The environment's answers for one operation: the statuses of its first
\* and second native call, whether errorString returns null, and the handle
\* a successful connect writes.  Answers that no call consumes are fixed.
Answers ==
    [s1 : {ST_OK}, s2 : {ST_OK}, esNull : {FALSE}, h : NativeHandles]
    \cup [s1 : ErrStatus, s2 : {ST_OK}, esNull : BOOLEAN, h : {1}]
    \cup [s1 : {ST_OK}, s2 : ErrStatus, esNull : BOOLEAN, h : {1}]

----------------------------------------------------------------------------
(* Argument parsing: str::parse::<u32>() *)

Digits == {"0", "1"}
DigitVal(c) == IF c = "1" THEN 1 ELSE 0

RECURSIVE ParseDigits(_, _)
\* Accumulates decimal digits; -1 on a character that is no digit.
ParseDigits(s, acc) ==
    IF s = <<>> THEN acc
    ELSE IF Head(s) \notin Digits THEN -1
    ELSE ParseDigits(Tail(s), acc * 10 + DigitVal(Head(s)))

\* -1 stands for Err(ParseIntError).  An unsigned parse accepts one leading
\* "+", then needs at least one digit.  (The pools hold no string long
\* enough to overflow u32.)
parse_u32(s) ==
    IF s = <<>> THEN -1
    ELSE IF Head(s) = "+"
         THEN IF Tail(s) = <<>> THEN -1 ELSE ParseDigits(Tail(s), 0)
         ELSE ParseDigits(s, 0)

\* CString::new fails on an interior zero byte.
HasNul(s) == \E i \in 1..Len(s) : s[i] = "NUL"

----------------------------------------------------------------------------
(* Version tags: struct size in the low 24 bits, revision in the top byte *)

RECURSIVE BitOr(_, _)
\* x | y on non-negative integers, bit by bit.
BitOr(x, y) ==
    IF x = 0 THEN y
    ELSE IF y = 0 THEN x
    ELSE (IF x % 2 = 1 \/ y % 2 = 1 THEN 1 ELSE 0) + 2 * BitOr(x \div 2, y \div 2)

\* x << n, below the 32-bit range
Shl(x, n) == x * 2^n

make_version2(struct_type) == BitOr(struct_type, Shl(2, 24))

\* size_of::<dcgmConnectV2Params_t>(): four 32-bit fields.
SizeOfConnectV2Params == 16
ConnectTimeoutMs == 3000000

----------------------------------------------------------------------------
(* Session methods.  Each takes the session `s`, its inputs and the native *)
(* library's answers, and yields the calls made, the result and the handle *)

S0 == [live |-> FALSE, stop_mode |-> "Embedded", handle |-> 0]

\* get_error_msg: asks the library for the string of `code`.
ErrStringCall(code, esNull) ==
    Call("errorString", code, IF esNull THEN "null" ELSE "str")

get_error_msg(code, esNull) ==
    IF esNull THEN UnknownErr(code) ELSE NativeErr(code)

\* The arm `err_code => Err(DCGMError::from(self.get_error_msg(err_code)))`
\* after the calls `cs`, the last of which returned `code`.
NativeFail(cs, code, esNull, h, o) ==
    Out(cs \o <<ErrStringCall(code, esNull)>>, Err(get_error_msg(code, esNull)), h, o)

init(s, o, st, esNull) ==
    LET cs == <<Call("dcgmInit", "-", st)>> IN
    IF st = ST_OK THEN Out(cs, Ok(Unit), s.handle, o)
    ELSE NativeFail(cs, st, esNull, s.handle, o)

\* The native connect calls write the handle on success; a failed call is
\* taken to leave it as it was.
startEmbedded(s, o, st, h, esNull) ==
    LET cs == <<Call("dcgmStartEmbedded", "DCGM_OPERATION_MODE_AUTO", st)>> IN
    IF st = ST_OK THEN Out(cs, Ok(Unit), h, "dcgmStartEmbedded")
    ELSE NativeFail(cs, st, esNull, s.handle, o)

ConnectParams(args) ==
    [version |-> make_version2(SizeOfConnectV2Params),
     timeoutMs |-> ConnectTimeoutMs,
     persistAfterDisconnect |-> IF Len(args) = 3 THEN parse_u32(args[3]) ELSE 0,
     addressIsUnixSocket |-> parse_u32(args[2])]

connectStandalone(s, o, args, st, h, esNull) ==
    IF Len(args) < 2
    THEN Out(<<>>, Err(StaticErr("missing dcgm address and / or isUnixSocket")),
             s.handle, o)
    ELSE LET p == ConnectParams(args)
             cs == <<Call("dcgmConnect_v2", [addr |-> args[1], params |-> p], st)>>
         IN  IF p.persistAfterDisconnect = -1 \/ p.addressIsUnixSocket = -1
                \/ HasNul(args[1])
             THEN Out(<<>>, Panic, s.handle, o)
             ELSE IF st = ST_OK THEN Out(cs, Ok(Unit), h, "dcgmConnect_v2")
             ELSE NativeFail(cs, st, esNull, s.handle, o)

connectToDcgm(s, o, m, args, st, h, esNull) ==
    IF m = "Embedded" THEN startEmbedded(s, o, st, h, esNull)
    ELSE IF m = "Standalone" THEN connectStandalone(s, o, args, st, h, esNull)
    ELSE Out(<<>>, Err(StaticErr("Not implemented")), s.handle, o)

\* stopEmbedded going on to dcgmShutdown whatever the stop returned.
stopEmbedded_always(s, o, st1, st2, esNull) ==
    LET c1 == <<Call("dcgmStopEmbedded", s.handle, st1)>>
        c2 == c1 \o <<Call("dcgmShutdown", "-", st2)>>
    IN  IF st1 # ST_OK THEN NativeFail(c2, st1, esNull, s.handle, o)
        ELSE IF st2 # ST_OK THEN NativeFail(c2, st2, esNull, s.handle, o)
        ELSE Out(c2, Ok(Unit), s.handle, o)

stopEmbedded(s, o, st1, st2, esNull) ==
    LET c1 == <<Call("dcgmStopEmbedded", s.handle, st1)>>
        c2 == c1 \o <<Call("dcgmShutdown", "-", st2)>>
    IN  IF st1 # ST_OK THEN NativeFail(c1, st1, esNull, s.handle, o)
        ELSE IF st2 # ST_OK THEN NativeFail(c2, st2, esNull, s.handle, o)
        ELSE Out(c2, Ok(Unit), s.handle, o)

disconnectStandalone(s, o, st1, st2, esNull) ==
    LET c1 == <<Call("dcgmDisconnect", s.handle, st1)>>
        c2 == c1 \o <<Call("dcgmShutdown", "-", st2)>>
    IN  IF st1 # ST_OK THEN NativeFail(c1, st1, esNull, s.handle, o)
        ELSE IF st2 # ST_OK THEN NativeFail(c2, st2, esNull, s.handle, o)
        ELSE Out(c2, Ok(Unit), s.handle, o)

\* shutdown with the two modes' teardowns exchanged.
shutdown_crossed(s, o, st1, st2, esNull) ==
    IF s.stop_mode = "Embedded" THEN disconnectStandalone(s, o, st1, st2, esNull)
    ELSE IF s.stop_mode = "Standalone" THEN stopEmbedded(s, o, st1, st2, esNull)
    ELSE Out(<<>>, Err(StaticErr("Not implemented")), s.handle, o)

shutdown(s, o, st1, st2, esNull) ==
    IF s.stop_mode = "Embedded" THEN stopEmbedded(s, o, st1, st2, esNull)
    ELSE IF s.stop_mode = "Standalone" THEN disconnectStandalone(s, o, st1, st2, esNull)
    ELSE Out(<<>>, Err(StaticErr("Not implemented")), s.handle, o)

\* new with a scoped release: dcgmShutdown is issued when the connect fails.
new_releasing(m, args, n) ==
    LET s == [live |-> TRUE, stop_mode |-> m, handle |-> 0]
        i == init(s, "none", n.s1, n.esNull)
        c == connectToDcgm(s, "none", m, args, n.s2, n.h, n.esNull)
    IN  IF i.res.kind # "Ok" THEN i
        ELSE IF c.res.kind = "Err"
        THEN Out(i.calls \o c.calls \o <<Call("dcgmShutdown", "-", ST_OK)>>,
                 c.res, c.handle, c.origin)
        ELSE Out(i.calls \o c.calls, c.res, c.handle, c.origin)

\* DcgmLibSafe::new with the library loaded: construct with handle 0, then
\* init()? and connectToDcgm(m, args)?.
new(m, args, n) ==
    LET s == [live |-> TRUE, stop_mode |-> m, handle |-> 0]
        i == init(s, "none", n.s1, n.esNull)
        c == connectToDcgm(s, "none", m, args, n.s2, n.h, n.esNull)
    IN  IF i.res.kind # "Ok" THEN i
        ELSE Out(i.calls \o c.calls, c.res, c.handle, c.origin)

----------------------------------------------------------------------------
(* 64-bit GPU bitmasks: a u64 is the sequence of its bits, lowest first *)

U64Bits == 64
BitIdx == 0..(U64Bits - 1)

\* The mask whose 1 bits are at the positions S.
MaskOf(S) == [i \in 1..U64Bits |-> IF (i - 1) \in S THEN 1 ELSE 0]
Zero64 == MaskOf({})
\* The positions of the 1 bits of a mask.
BitsOf(mask) == { i \in BitIdx : mask[i + 1] = 1 }

\* mask & 1
Bit0(mask) == Head(mask)
\* mask |= 1 << g, for g <= 63
OrBit(mask, g) == [mask EXCEPT ![g + 1] = 1]
\* A sign-extending shift: the top bit is kept.
Shr1_arith(mask) == Tail(mask) \o <<mask[U64Bits]>>

\* mask >>= 1 (logical: the type is unsigned, a 0 comes in at the top)
Shr1(mask) == Tail(mask) \o <<0>>

RECURSIVE EncodeLoop_skip(_, _)
\* An encoding loop that passes over an id above 63 instead of failing.
EncodeLoop_skip(order, mask) ==
    IF order = <<>> THEN [err |-> FALSE, mask |-> mask]
    ELSE IF Head(order) > 63 THEN EncodeLoop_skip(Tail(order), mask)
    ELSE EncodeLoop_skip(Tail(order), OrBit(mask, Head(order)))

RECURSIVE EncodeLoop(_, _)
\* `for gpu in gpuIds`, visiting the set in the order `order`: stops with an
\* error at the first id above 63, else sets the id's bit.
EncodeLoop(order, mask) ==
    IF order = <<>> THEN [err |-> FALSE, mask |-> mask]
    ELSE IF Head(order) > 63 THEN [err |-> TRUE, mask |-> mask]
    ELSE EncodeLoop(Tail(order), OrBit(mask, Head(order)))

RECURSIVE DecodeLoop(_, _, _)
\* `while outputBitmask != 0`: collects the positions of the set bits.  A
\* loop still running after more iterations than the mask has bits (or
\* holding more indices than that) is reported as not terminating.
DecodeLoop(mask, index, indices) ==
    IF mask = Zero64 THEN [done |-> TRUE, indices |-> indices]
    ELSE IF index > U64Bits \/ Cardinality(indices) > U64Bits
         THEN [done |-> FALSE, indices |-> indices]
    ELSE DecodeLoop(Shr1(mask), index + 1,
                    IF Bit0(mask) = 1 THEN indices \cup {index} ELSE indices)

Hang == [kind |-> "Hang", msg |-> NoMsg, val |-> <<>>]

selectGpusByTopology(s, o, order, numGpus, st, outMask, esNull) ==
    LET enc == EncodeLoop(order, Zero64)
        cs == <<Call("dcgmSelectGpusByTopology",
                     [handle |-> s.handle, inputGpuIds |-> enc.mask,
                      numGpus |-> numGpus, outputGpuIds |-> outMask], st)>>
        dec == DecodeLoop(outMask, 0, {})
    IN  IF enc.err
        THEN Out(<<>>, Err(StaticErr("gpu value out of bounds")), s.handle, o)
        ELSE IF st # ST_OK THEN NativeFail(cs, st, esNull, s.handle, o)
        ELSE IF dec.done THEN Out(cs, Ok(dec.indices), s.handle, o)
        ELSE Out(cs, Hang, s.handle, o)

----------------------------------------------------------------------------
(* Device attributes and topology *)

\* Capacity of dcgmDeviceTopology_t.gpuPaths in the vendor header
\* (DCGM_MAX_NUM_DEVICES - 1); indexing past it panics.
TopoMaxGpus == 31

\* The output structs start uninitialised and are read only after a success
\* status, when the native call has written them.
getDeviceAttributes(s, o, gpuId, st, esNull) ==
    LET cs == <<Call("dcgmGetDeviceAttributes",
                     [handle |-> s.handle, gpuId |-> gpuId], st)>>
    IN  IF st = ST_OK THEN Out(cs, Ok("device"), s.handle, o)
        ELSE NativeFail(cs, st, esNull, s.handle, o)

\* A record that carries the path value in both fields.
P2PLink_pathonly(p) == [gpu |-> p.path, bus_id |-> "test", link |-> p.path]

P2PLink(p) == [gpu |-> p.gpuId, bus_id |-> "test", link |-> p.path]

\* getDeviceTopology without the arm for the not-supported status.
getDeviceTopology_noarm(s, o, gpuId, st1, st2, esNull, topo) ==
    LET c1 == <<Call("dcgmGetDeviceTopology",
                     [handle |-> s.handle, gpuId |-> gpuId], st1)>>
        a == getDeviceAttributes(s, o, gpuId, st2, esNull)
        cs == c1 \o a.calls
    IN  IF st1 # ST_OK THEN NativeFail(c1, st1, esNull, s.handle, o)
        ELSE IF a.res.kind # "Ok" THEN Out(cs, Panic, s.handle, o)
        ELSE IF topo.numGpus > TopoMaxGpus THEN Out(cs, Panic, s.handle, o)
        ELSE Out(cs, Ok([i \in 1..topo.numGpus |-> P2PLink(topo.gpuPaths[i])]),
                 s.handle, o)

\* `topo` is what the native call wrote: numGpus and the gpuPaths array.
getDeviceTopology(s, o, gpuId, st1, st2, esNull, topo) ==
    LET c1 == <<Call("dcgmGetDeviceTopology",
                     [handle |-> s.handle, gpuId |-> gpuId], st1)>>
        a == getDeviceAttributes(s, o, gpuId, st2, esNull)
        cs == c1 \o a.calls
    IN  IF st1 = ST_NOT_SUPPORTED THEN Out(c1, Ok(<<>>), s.handle, o)
        ELSE IF st1 # ST_OK THEN NativeFail(c1, st1, esNull, s.handle, o)
        ELSE IF a.res.kind # "Ok" THEN Out(cs, Panic, s.handle, o)
        ELSE IF topo.numGpus > TopoMaxGpus THEN Out(cs, Panic, s.handle, o)
        ELSE Out(cs, Ok([i \in 1..topo.numGpus |-> P2PLink(topo.gpuPaths[i])]),
                 s.handle, o)

----------------------------------------------------------------------------
(* Device and entity lists: a fixed buffer the native call fills *)

\* Capacity of the id buffers, in entries.
DCGM_MAX_NUM_DEVICES == 32

\* The process is gone: an abort, a fault or a failed allocation.
Crash == Panic

\* from_raw_parts(buffer, count as usize).to_vec(), where the native call
\* wrote `ids` at the front of the buffer and reported `count`.  Up to the
\* written entries the copy is what was written.  A count above what was
\* written reads uninitialised or foreign memory, which is undefined: `ub`
\* is what the build then does, a copy holding whatever was there (`junk`)
\* or a crash.  A negative count turns into a length near 2^64, which no
\* allocation satisfies.
PrefixToVec(ids, count, ub) ==
    IF count < 0 THEN Crash
    ELSE IF count <= Len(ids) THEN Ok(SubSeq(ids, 1, count))
    ELSE IF ub.crash THEN Crash
    ELSE Ok([i \in 1..count |-> IF i <= Len(ids) THEN ids[i] ELSE ub.junk])

getAllSupportedDevices(s, o, st, rep, ub, esNull) ==
    LET cs == <<Call("dcgmGetAllSupportedDevices", [handle |-> s.handle], st)>>
    IN  IF st # ST_OK THEN NativeFail(cs, st, esNull, s.handle, o)
        ELSE Out(cs, PrefixToVec(rep.ids, rep.count, ub), s.handle, o)

getEntityGroupEntites(s, o, entityType, st, rep, ub, esNull) ==
    LET cs == <<Call("dcgmGetEntityGroupEntities",
                     [handle |-> s.handle, entityGroup |-> entityType,
                      count |-> DCGM_MAX_NUM_DEVICES, flags |-> 0], st)>>
    IN  IF st # ST_OK THEN NativeFail(cs, st, esNull, s.handle, o)
        ELSE Out(cs, PrefixToVec(rep.ids, rep.count, ub), s.handle, o)

----------------------------------------------------------------------------
(* Groups, field groups and watches: checked pass-through calls *)

\* One native call `c` (made with status `st`), Ok(v) on success.
Checked(s, o, c, st, esNull, v) ==
    IF st = ST_OK THEN Out(<<c>>, Ok(v), s.handle, o)
    ELSE NativeFail(<<c>>, st, esNull, s.handle, o)

createGroup(s, o, group_name, st, groupId, esNull) ==
    IF HasNul(group_name) THEN Out(<<>>, Panic, s.handle, o)
    ELSE Checked(s, o, Call("dcgmGroupCreate",
                            [handle |-> s.handle, name |-> group_name], st),
                 st, esNull, groupId)

addEntityToGroup(s, o, groupId, entityGroupID, entityId, st, esNull) ==
    Checked(s, o, Call("dcgmGroupAddEntity",
                       [handle |-> s.handle, groupId |-> groupId,
                        entityGroupID |-> entityGroupID, entityId |-> entityId], st),
            st, esNull, Unit)

destroyGroup(s, o, groupId, st, esNull) ==
    Checked(s, o, Call("dcgmGroupDestroy",
                       [handle |-> s.handle, groupId |-> groupId], st),
            st, esNull, Unit)

fieldGroupCreate(s, o, fieldGroupName, fieldIds, st, fieldHandle, esNull) ==
    IF HasNul(fieldGroupName) THEN Out(<<>>, Panic, s.handle, o)
    ELSE Checked(s, o, Call("dcgmFieldGroupCreate",
                            [handle |-> s.handle, numFieldIds |-> Len(fieldIds),
                             fieldIds |-> fieldIds, name |-> fieldGroupName], st),
                 st, esNull, fieldHandle)

fieldGroupDestroy(s, o, dcgmFieldGroupId, st, esNull) ==
    Checked(s, o, Call("dcgmFieldGroupDestroy",
                       [handle |-> s.handle, fieldGroupId |-> dcgmFieldGroupId], st),
            st, esNull, Unit)

updateAllFields(s, o, st, esNull) ==
    Checked(s, o, Call("dcgmUpdateAllFields",
                       [handle |-> s.handle, waitForUpdate |-> 1], st),
            st, esNull, Unit)

\* watchFields that forces the update whatever the registration returned.
watchFields_always(s, o, fieldGroupId, groupId, st1, st2, esNull) ==
    LET c1 == <<Call("dcgmWatchFields",
                     [handle |-> s.handle, groupId |-> groupId,
                      fieldGroupId |-> fieldGroupId], st1)>>
        u == updateAllFields(s, o, st2, esNull)
    IN  IF st1 # ST_OK
        THEN Out(c1 \o u.calls, Err(NativeErr(st1)), s.handle, o)
        ELSE Out(c1 \o u.calls, u.res, s.handle, o)

watchFields(s, o, fieldGroupId, groupId, st1, st2, esNull) ==
    LET c1 == <<Call("dcgmWatchFields",
                     [handle |-> s.handle, groupId |-> groupId,
                      fieldGroupId |-> fieldGroupId], st1)>>
        u == updateAllFields(s, o, st2, esNull)
    IN  IF st1 # ST_OK THEN NativeFail(c1, st1, esNull, s.handle, o)
        ELSE Out(c1 \o u.calls, u.res, s.handle, o)

----------------------------------------------------------------------------
(* Latest values: the lists are passed as a pointer to their first element *)

\* The values vector after a successful call: n entries the native call
\* wrote; k varies them.
ValuesFill(n, k) == [i \in 1..n |-> [status |-> ST_OK, value |-> k + i]]

\* entitiesGetLatestValues handing the native call whatever it was given.
entitiesGetLatestValues_unchecked(s, o, entities, fields, flags, st, k, esNull) ==
    LET n == Len(fields) * Len(entities)
        c == Call("dcgmEntitiesGetLatestValues",
                  [handle |-> s.handle, entities |-> entities,
                   entitiesCount |-> Len(entities), fields |-> fields,
                   fieldsCount |-> Len(fields), flags |-> flags], st)
    IN  Checked(s, o, c, st, esNull, ValuesFill(n, k))

\* The arguments are evaluated before the call: &mut entities[0], then
\* &mut fields[0], then &mut values[0]; indexing an empty slice or vector
\* panics.  values has fields.len() * entities.len() entries.
entitiesGetLatestValues(s, o, entities, fields, flags, st, k, esNull) ==
    LET n == Len(fields) * Len(entities)
        c == Call("dcgmEntitiesGetLatestValues",
                  [handle |-> s.handle, entities |-> entities,
                   entitiesCount |-> Len(entities), fields |-> fields,
                   fieldsCount |-> Len(fields), flags |-> flags], st)
    IN  IF Len(entities) = 0 THEN Out(<<>>, Panic, s.handle, o)
        ELSE IF Len(fields) = 0 THEN Out(<<>>, Panic, s.handle, o)
        ELSE IF n = 0 THEN Out(<<>>, Panic, s.handle, o)
        ELSE Checked(s, o, c, st, esNull, ValuesFill(n, k))

\* &mut fields[0], then values[0], with fields.len() entries in values.
entityGetLatestValues(s, o, entityId, entityGroup, fields, st, k, esNull) ==
    LET n == Len(fields)
        c == Call("dcgmEntityGetLatestValues",
                  [handle |-> s.handle, entityGroup |-> entityGroup,
                   entityId |-> entityId, fields |-> fields,
                   fieldsCount |-> Len(fields)], st)
    IN  IF Len(fields) = 0 THEN Out(<<>>, Panic, s.handle, o)
        ELSE IF n = 0 THEN Out(<<>>, Panic, s.handle, o)
        ELSE Checked(s, o, c, st, esNull, ValuesFill(n, k))

----------------------------------------------------------------------------
(* NvLink link status *)

\* Sizes of the per-entity link-state arrays in the vendor header.
DCGM_NVLINK_MAX_LINKS_PER_GPU == 18
DCGM_NVLINK_MAX_LINKS_PER_NVSWITCH == 64

NvLinkStatus(parent_id, parent_type, state, index) ==
    [parent_id |-> parent_id, parent_type |-> parent_type,
     state |-> state, index |-> index]

\* Two nested loops, `for i in 0..n` and `for j in 0..links`, pushing one
\* record per (i, j) read from entries[i] and entries[i].linkState[j].
LinkRecords(entries, n, links, parent_type) ==
    [k \in 1..(n * links) |->
        LET i == ((k - 1) \div links) + 1
            j == ((k - 1) % links) + 1
        IN  NvLinkStatus(entries[i].entityId, parent_type,
                         entries[i].linkState[j], j - 1)]

\* Some index of those loops lies outside the array it reads: a panic.
LinkIndexOutOfBounds(entries, n, links) ==
    \E i \in 1..n :
        \/ i > Len(entries)
        \/ links > Len(entries[i].linkState)

\* `ls` is what the native call wrote.  Both loops read ls.gpus: the first
\* up to numGpus entries and DCGM_NVLINK_MAX_LINKS_PER_GPU links, the second
\* up to numNvSwitches entries and DCGM_NVLINK_MAX_LINKS_PER_NVSWITCH links.
getNvLinkLinkStatus(s, o, st, ls, esNull) ==
    LET cs == <<Call("dcgmGetNvLinkLinkStatus", [handle |-> s.handle], st)>>
    IN  IF st # ST_OK THEN NativeFail(cs, st, esNull, s.handle, o)
        ELSE IF LinkIndexOutOfBounds(ls.gpus, ls.numGpus, DCGM_NVLINK_MAX_LINKS_PER_GPU)
        THEN Out(cs, Panic, s.handle, o)
        ELSE IF LinkIndexOutOfBounds(ls.gpus, ls.numNvSwitches,
                                     DCGM_NVLINK_MAX_LINKS_PER_NVSWITCH)
        THEN Out(cs, Panic, s.handle, o)
        ELSE Out(cs,
                 Ok(LinkRecords(ls.gpus, ls.numGpus,
                                DCGM_NVLINK_MAX_LINKS_PER_GPU, "DCGM_FE_GPU")
                    \o LinkRecords(ls.gpus, ls.numNvSwitches,
                                   DCGM_NVLINK_MAX_LINKS_PER_NVSWITCH, "DCGM_FE_SWITCH")),
                 s.handle, o)

\* An initialiser that runs again while no library is held.
Load_retry(lib, loads) ==
    IF lib # "Ok" THEN [lib |-> IF loads THEN "Ok" ELSE "Err", ran |-> 1]
    ELSE [lib |-> lib, ran |-> 0]

\* &*DCGM_LIB: the initialiser (the load of the shared object) runs on first
\* use only; its result, Ok or Err, is kept and handed out afterwards.
Load(lib, loads) ==
    IF lib = "uninit" THEN [lib |-> IF loads THEN "Ok" ELSE "Err", ran |-> 1]
    ELSE [lib |-> lib, ran |-> 0]

----------------------------------------------------------------------------
(* What the native library may write into output parameters *)

MaxPeers == 2

\* Group and field-group ids.
NativeIds == {7}

\* Masks dcgmSelectGpusByTopology may return.
OutMaskPool ==
    { MaskOf(S) : S \in SUBSET {0, 1, 62, 63} } \cup { MaskOf(0..(N - 1)) : N \in {3, 64} }

\* dcgmGpuLevel_t values a topology entry may carry.
PathPool == <<2, 8, 256, 260>>

\* A populated gpuPaths array; k varies its contents.
TopoFill(k) ==
    [i \in 1..TopoMaxGpus |->
        [gpuId |-> i + k, path |-> PathPool[((i + k) % Len(PathPool)) + 1]]]

TopoAnswers ==
    [numGpus : (0..MaxPeers) \cup {TopoMaxGpus + 1}, gpuPaths : {TopoFill(0), TopoFill(1)}]

\* Counts the list calls may report: none, some, the capacity, one more
\* than the capacity, and a negative value (the count is an i32).
CountPool == {0, 1, MaxPeers, DCGM_MAX_NUM_DEVICES, DCGM_MAX_NUM_DEVICES + 1, -1}

\* The ids the native call writes for a count: as many as reported, up to
\* the capacity; k varies them.
IdsFill(count, k) ==
    LET n == IF count < 0 THEN 0
             ELSE IF count > DCGM_MAX_NUM_DEVICES THEN DCGM_MAX_NUM_DEVICES
             ELSE count
    IN  [i \in 1..n |-> 2 * i + k]

ListAnswers == { [count |-> c, ids |-> IdsFill(c, k)] : c \in CountPool, k \in {0, 1} }

\* What an out-of-bounds read may produce.
UBOutcomes == [crash : BOOLEAN, junk : {0, 9}]

EntityGroups == {"DCGM_FE_GPU", "DCGM_FE_SWITCH"}

\* Entity lists offered to entitiesGetLatestValues.
EntityPair(g, id) == [entityGroupId |-> g, entityId |-> id]
EntityLists ==
    { <<>>, <<EntityPair("DCGM_FE_GPU", 0)>>,
      <<EntityPair("DCGM_FE_GPU", 0), EntityPair("DCGM_FE_SWITCH", 1)>> }

\* dcgmNvLinkLinkState_t values.
LinkStates == <<"NotSupported", "Disabled", "Down", "Up">>

\* Capacity of dcgmNvLinkStatus_t.nvSwitches in the vendor header.
DCGM_MAX_NUM_SWITCHES == 12

\* An array of `cap` entries with `links` link states each; k varies the
\* contents, `base` the entity ids.
LinkEntries(cap, links, base, k) ==
    [i \in 1..cap |->
        [entityId |-> base + i - 1,
         linkState |-> [j \in 1..links |-> LinkStates[((i + j + k) % Len(LinkStates)) + 1]]]]

NvLinkAnswers ==
    { [numGpus |-> g, numNvSwitches |-> w,
       gpus |-> LinkEntries(DCGM_MAX_NUM_DEVICES, DCGM_NVLINK_MAX_LINKS_PER_GPU, 0, k),
       nvSwitches |-> LinkEntries(DCGM_MAX_NUM_SWITCHES,
                                  DCGM_NVLINK_MAX_LINKS_PER_NVSWITCH, 100, k)] :
        g \in 0..MaxPeers, w \in 0..1, k \in {0, 1} }

----------------------------------------------------------------------------
(* Link classification labels: two planes of a dcgmGpuLevel_enum (u32) *)

\* The dcgmGpuLevel_enum values of the vendor header, as the match arms
\* name them.
DCGM_TOPOLOGY_UNINITIALIZED == 0
DCGM_TOPOLOGY_BOARD == 1
DCGM_TOPOLOGY_SINGLE == 2
DCGM_TOPOLOGY_MULTIPLE == 4
DCGM_TOPOLOGY_HOSTBRIDGE == 8
DCGM_TOPOLOGY_CPU == 16
DCGM_TOPOLOGY_SYSTEM == 32
NvLinkClasses == 18
\* DCGM_TOPOLOGY_NVLINK1 = 0x100, each next class one bit higher.
DCGM_TOPOLOGY_NVLINK(k) == Shl(256, k - 1)

NvLabels ==
    <<"NV1", "NV2", "NV3", "NV4", "NV5", "NV6", "NV7", "NV8", "NV9", "NV10",
      "NV11", "NV12", "NV13", "NV14", "NV15", "NV16", "NV17", "NV18">>

\* link & 0xFF
LowByte(link) == link % 256
\* link & 0xFFFFFF00
AboveLowByte(link) == link - (link % 256)

\* The PCIe match without the `link &= 0xFF` before it.
p2p_pcie_connectivity_to_string_nomask(link) ==
    CASE link = DCGM_TOPOLOGY_UNINITIALIZED -> "N/A"
      [] link = DCGM_TOPOLOGY_BOARD -> "PSB"
      [] link = DCGM_TOPOLOGY_SINGLE -> "PIX"
      [] link = DCGM_TOPOLOGY_MULTIPLE -> "PXB"
      [] link = DCGM_TOPOLOGY_HOSTBRIDGE -> "PHB"
      [] link = DCGM_TOPOLOGY_CPU -> "NODE"
      [] link = DCGM_TOPOLOGY_SYSTEM -> "SYS"
      [] OTHER -> "ERR"

p2p_pcie_connectivity_to_string(link) ==
    LET l == LowByte(link)
    IN  CASE l = DCGM_TOPOLOGY_UNINITIALIZED -> "N/A"
          [] l = DCGM_TOPOLOGY_BOARD -> "PSB"
          [] l = DCGM_TOPOLOGY_SINGLE -> "PIX"
          [] l = DCGM_TOPOLOGY_MULTIPLE -> "PXB"
          [] l = DCGM_TOPOLOGY_HOSTBRIDGE -> "PHB"
          [] l = DCGM_TOPOLOGY_CPU -> "NODE"
          [] l = DCGM_TOPOLOGY_SYSTEM -> "SYS"
          [] OTHER -> "ERR"

p2p_nvlink_connectivity_to_string(link) ==
    LET l == AboveLowByte(link)
    IN  IF \E k \in 1..NvLinkClasses : l = DCGM_TOPOLOGY_NVLINK(k)
        THEN NvLabels[CHOOSE k \in 1..NvLinkClasses : l = DCGM_TOPOLOGY_NVLINK(k)]
        ELSE "ERR"

\* Raw values: nothing, each PCIe class alone, low bytes that are no class,
\* each NVLink class alone, high parts that are no class, and mixtures.
LowPool == {0, 1, 2, 4, 8, 16, 32, 3, 64, 128, 255}
HighPool ==
    { DCGM_TOPOLOGY_NVLINK(k) : k \in 1..NvLinkClasses }
        \cup {0, 768, Shl(256, NvLinkClasses), Shl(1, 30)}
LinkPool == { hi + lo : hi \in HighPool, lo \in LowPool }

----------------------------------------------------------------------------
(* Actions *)

OpRec(name, mode, args, input) ==
    [name |-> name, mode |-> mode, args |-> args, input |-> input]

Idle == OpRec("none", "-", <<>>, <<>>)

\* The caller may start an operation.
Ready == alive /\ op = Idle
\* The caller may call a method of its session.
HasSession == Ready /\ session.live

Init ==
    /\ DCGM_LIB = "uninit"
    /\ session = S0
    /\ origin = "none"
    /\ ctor = "-"
    /\ op = Idle
    /\ calls = <<>>
    /\ res = Ok(Unit)
    /\ alive = TRUE
    /\ loadRuns = 0

\* A method of the existing session ran with outcome `o`.
Ran(o, opr) ==
    /\ op' = opr
    /\ calls' = o.calls
    /\ res' = o.res
    /\ alive' = (o.res.kind # "Panic")
    /\ session' = [session EXCEPT !.handle = o.handle]
    /\ origin' = o.origin
    /\ UNCHANGED <<DCGM_LIB, ctor, loadRuns>>

New ==
    /\ Ready
    /\ \E m \in Modes, args \in ArgLists, n \in Answers, loads \in BOOLEAN :
        LET ld == Load(DCGM_LIB, loads)
            lib == ld.lib
            o == IF lib = "Ok" THEN new(m, args, n)
                 ELSE Out(<<>>, Err(StaticErr("Failed to load DCGM library")), 0, "none")
        IN  /\ (DCGM_LIB # "uninit" => loads)
            /\ (lib # "Ok" => n = [s1 |-> ST_OK, s2 |-> ST_OK, esNull |-> FALSE, h |-> 1])
            /\ DCGM_LIB' = lib
            /\ loadRuns' = loadRuns + ld.ran
            /\ op' = OpRec("new", m, args, [firstUse |-> DCGM_LIB = "uninit"])
            /\ calls' = o.calls
            /\ res' = o.res
            /\ alive' = (o.res.kind # "Panic")
            /\ session' = IF o.res.kind = "Ok"
                          THEN [live |-> TRUE, stop_mode |-> m, handle |-> o.handle]
                          ELSE session
            /\ origin' = IF o.res.kind = "Ok" THEN o.origin ELSE origin
            /\ ctor' = IF o.res.kind = "Ok" THEN m ELSE ctor

ConnectToDcgm ==
    /\ HasSession
    /\ \E m \in Modes, args \in ArgLists, n \in Answers :
        /\ n.s2 = ST_OK
        /\ Ran(connectToDcgm(session, origin, m, args, n.s1, n.h, n.esNull),
               OpRec("connectToDcgm", m, args, <<>>))

StartEmbedded ==
    /\ HasSession
    /\ \E n \in Answers :
        /\ n.s2 = ST_OK
        /\ Ran(startEmbedded(session, origin, n.s1, n.h, n.esNull),
               OpRec("startEmbedded", "-", <<>>, <<>>))

ConnectStandalone ==
    /\ HasSession
    /\ \E args \in ArgLists, n \in Answers :
        /\ n.s2 = ST_OK
        /\ Ran(connectStandalone(session, origin, args, n.s1, n.h, n.esNull),
               OpRec("connectStandalone", "-", args, <<>>))

Shutdown ==
    /\ HasSession
    /\ \E n \in Answers :
        /\ n.h = 1
        /\ Ran(shutdown(session, origin, n.s1, n.s2, n.esNull),
               OpRec("shutdown", "-", <<>>, <<>>))

StopEmbedded ==
    /\ HasSession
    /\ \E n \in Answers :
        /\ n.h = 1
        /\ Ran(stopEmbedded(session, origin, n.s1, n.s2, n.esNull),
               OpRec("stopEmbedded", "-", <<>>, <<>>))

DisconnectStandalone ==
    /\ HasSession
    /\ \E n \in Answers :
        /\ n.h = 1
        /\ Ran(disconnectStandalone(session, origin, n.s1, n.s2, n.esNull),
               OpRec("disconnectStandalone", "-", <<>>, <<>>))

InitOp ==
    /\ HasSession
    /\ \E n \in Answers :
        /\ n.s2 = ST_OK /\ n.h = 1
        /\ Ran(init(session, origin, n.s1, n.esNull),
               OpRec("init", "-", <<>>, <<>>))

\* The orders in which a HashSet holding the ids S may be iterated.
Orders(S) ==
    { q \in [1..Cardinality(S) -> S] : \A i, j \in 1..Cardinality(S) : i # j => q[i] # q[j] }

SelectGpusByTopology ==
    /\ HasSession
    /\ \E S \in SUBSET IdPool, numGpus \in NumGpusPool, n \in Answers :
       \E order \in Orders(S), outMask \in OutMaskPool \cup {MaskOf(S)} :
        /\ n.s2 = ST_OK /\ n.h = 1
        /\ Ran(selectGpusByTopology(session, origin, order, numGpus, n.s1, outMask, n.esNull),
               OpRec("selectGpusByTopology", "-", <<>>, [gpuIds |-> S, numGpus |-> numGpus]))

GetDeviceAttributes ==
    /\ HasSession
    /\ \E gpuId \in GpuIdPool, n \in Answers :
        /\ n.s2 = ST_OK /\ n.h = 1
        /\ Ran(getDeviceAttributes(session, origin, gpuId, n.s1, n.esNull),
               OpRec("getDeviceAttributes", "-", <<>>, [gpuId |-> gpuId]))

GetDeviceTopology ==
    /\ HasSession
    /\ \E gpuId \in GpuIdPool, n \in Answers, topo \in TopoAnswers :
        /\ n.h = 1
        /\ Ran(getDeviceTopology(session, origin, gpuId, n.s1, n.s2, n.esNull, topo),
               OpRec("getDeviceTopology", "-", <<>>, [gpuId |-> gpuId, topo |-> topo]))

CreateGroup ==
    /\ HasSession
    /\ \E name \in NamePool, gid \in NativeIds, n \in Answers :
        /\ n.s2 = ST_OK /\ n.h = 1
        /\ Ran(createGroup(session, origin, name, n.s1, gid, n.esNull),
               OpRec("createGroup", "-", <<>>, [name |-> name]))

AddEntityToGroup ==
    /\ HasSession
    /\ \E gpuId \in GpuIdPool, gid \in NativeIds, n \in Answers :
        /\ n.s2 = ST_OK /\ n.h = 1
        /\ Ran(addEntityToGroup(session, origin, gid, "DCGM_FE_GPU", gpuId, n.s1, n.esNull),
               OpRec("addEntityToGroup", "-", <<>>, [entityId |-> gpuId]))

DestroyGroup ==
    /\ HasSession
    /\ \E gid \in NativeIds, n \in Answers :
        /\ n.s2 = ST_OK /\ n.h = 1
        /\ Ran(destroyGroup(session, origin, gid, n.s1, n.esNull),
               OpRec("destroyGroup", "-", <<>>, <<>>))

FieldGroupCreate ==
    /\ HasSession
    /\ \E name \in NamePool, fieldIds \in FieldIdLists, gid \in NativeIds, n \in Answers :
        /\ n.s2 = ST_OK /\ n.h = 1
        /\ Ran(fieldGroupCreate(session, origin, name, fieldIds, n.s1, gid, n.esNull),
               OpRec("fieldGroupCreate", "-", <<>>, [name |-> name, fieldIds |-> fieldIds]))

FieldGroupDestroy ==
    /\ HasSession
    /\ \E gid \in NativeIds, n \in Answers :
        /\ n.s2 = ST_OK /\ n.h = 1
        /\ Ran(fieldGroupDestroy(session, origin, gid, n.s1, n.esNull),
               OpRec("fieldGroupDestroy", "-", <<>>, <<>>))

UpdateAllFields ==
    /\ HasSession
    /\ \E n \in Answers :
        /\ n.s2 = ST_OK /\ n.h = 1
        /\ Ran(updateAllFields(session, origin, n.s1, n.esNull),
               OpRec("updateAllFields", "-", <<>>, <<>>))

WatchFields ==
    /\ HasSession
    /\ \E gid \in NativeIds, n \in Answers :
        /\ n.h = 1
        /\ Ran(watchFields(session, origin, gid, gid, n.s1, n.s2, n.esNull),
               OpRec("watchFields", "-", <<>>, <<>>))

GetAllSupportedDevices ==
    /\ HasSession
    /\ \E n \in Answers, rep \in ListAnswers, ub \in UBOutcomes :
        /\ n.s2 = ST_OK /\ n.h = 1
        /\ Ran(getAllSupportedDevices(session, origin, n.s1, rep, ub, n.esNull),
               OpRec("getAllSupportedDevices", "-", <<>>, [rep |-> rep]))

GetEntityGroupEntites ==
    /\ HasSession
    /\ \E g \in EntityGroups, n \in Answers, rep \in ListAnswers, ub \in UBOutcomes :
        /\ n.s2 = ST_OK /\ n.h = 1
        /\ Ran(getEntityGroupEntites(session, origin, g, n.s1, rep, ub, n.esNull),
               OpRec("getEntityGroupEntites", "-", <<>>, [rep |-> rep]))

EntitiesGetLatestValues ==
    /\ HasSession
    /\ \E entities \in EntityLists, fields \in FieldIdLists, n \in Answers, k \in {0, 1} :
        /\ n.s2 = ST_OK /\ n.h = 1
        /\ Ran(entitiesGetLatestValues(session, origin, entities, fields, 0,
                                       n.s1, k, n.esNull),
               OpRec("entitiesGetLatestValues", "-", <<>>,
                     [entities |-> entities, fields |-> fields]))

EntityGetLatestValues ==
    /\ HasSession
    /\ \E gpuId \in GpuIdPool, g \in EntityGroups, fields \in FieldIdLists,
          n \in Answers, k \in {0, 1} :
        /\ n.s2 = ST_OK /\ n.h = 1
        /\ Ran(entityGetLatestValues(session, origin, gpuId, g, fields,
                                     n.s1, k, n.esNull),
               OpRec("entityGetLatestValues", "-", <<>>,
                     [entityId |-> gpuId, fields |-> fields]))

GetNvLinkLinkStatus ==
    /\ HasSession
    /\ \E n \in Answers, ls \in NvLinkAnswers :
        /\ n.s2 = ST_OK /\ n.h = 1
        /\ Ran(getNvLinkLinkStatus(session, origin, n.s1, ls, n.esNull),
               OpRec("getNvLinkLinkStatus", "-", <<>>, [ls |-> ls]))

\* The two label functions applied to one raw link value (free functions:
\* no session is needed).
LinkLabels ==
    /\ Ready
    /\ \E link \in LinkPool :
        /\ op' = OpRec("p2p_connectivity_to_string", "-", <<>>, [link |-> link])
        /\ calls' = <<>>
        /\ res' = Ok([pcie |-> p2p_pcie_connectivity_to_string(link),
                      nvlink |-> p2p_nvlink_connectivity_to_string(link)])
        /\ UNCHANGED <<DCGM_LIB, session, origin, ctor, alive, loadRuns>>

\* The caller takes the result of the operation that just ran.
Return ==
    /\ alive /\ op # Idle
    /\ op' = Idle
    /\ calls' = <<>>
    /\ res' = Ok(Unit)
    /\ UNCHANGED <<DCGM_LIB, session, origin, ctor, alive, loadRuns>>

Next ==
    \/ Return
    \/ New
    \/ ConnectToDcgm
    \/ StartEmbedded
    \/ ConnectStandalone
    \/ Shutdown
    \/ StopEmbedded
    \/ DisconnectStandalone
    \/ InitOp
    \/ SelectGpusByTopology
    \/ GetDeviceAttributes
    \/ GetDeviceTopology
    \/ CreateGroup
    \/ AddEntityToGroup
    \/ DestroyGroup
    \/ FieldGroupCreate
    \/ FieldGroupDestroy
    \/ UpdateAllFields
    \/ WatchFields
    \/ LinkLabels
    \/ GetAllSupportedDevices
    \/ GetEntityGroupEntites
    \/ EntitiesGetLatestValues
    \/ EntityGetLatestValues
    \/ GetNvLinkLinkStatus

Spec == Init /\ [][Next]_vars

----------------------------------------------------------------------------
(* Properties *)

IsNative(c) == c.fn # "errorString"
\* The native calls of the operation that just ran, errorString left out.
NativeCalls == SelectSeq(calls, IsNative)
NativeFns == Fns(NativeCalls)
CalledFns == { calls[i].fn : i \in 1..Len(calls) }

\* The teardown sequence of a mode, in full.
FullTeardown(m) ==
    IF m = "Embedded" THEN <<"dcgmStopEmbedded", "dcgmShutdown">>
    ELSE IF m = "Standalone" THEN <<"dcgmDisconnect", "dcgmShutdown">>
    ELSE <<>>

\* C1, as stated: shutdown() of a session built by new(mode, args) issues
\* exactly the full teardown sequence of that mode, the first call on the
\* session's handle, in order; StartHostengine makes no native call and
\* yields an error.
C1_Original ==
    op.name = "shutdown" =>
        /\ NativeFns = FullTeardown(ctor)
        /\ (ctor \in {"Embedded", "Standalone"} => NativeCalls[1].arg = session.handle)
        /\ (ctor = "StartHostengine" => res.kind = "Err")

\* C1, amended: shutdown() issues the teardown sequence of the mode given at
\* construction, in order, and stops after the first step when that step
\* fails: dcgmShutdown follows only a first step that returned success.  No
\* teardown call of the other mode is made.
C1_ShutdownMatchesCtorMode ==
    op.name = "shutdown" =>
        /\ Len(NativeCalls) >= 1 \/ ctor = "StartHostengine"
        /\ (ctor \in {"Embedded", "Standalone"} =>
              /\ NativeCalls[1].arg = session.handle
              /\ NativeFns = IF NativeCalls[1].st = ST_OK
                             THEN FullTeardown(ctor)
                             ELSE SubSeq(FullTeardown(ctor), 1, 1))
        /\ (ctor = "StartHostengine" => Len(calls) = 0 /\ res.kind = "Err")

C1_Witness ==
    /\ op.name = "shutdown"
    /\ ctor = "Standalone"
    /\ res.kind = "Ok"
    /\ NativeFns = <<"dcgmDisconnect", "dcgmShutdown">>

\* C2: the teardown shutdown() performs matches the connect that produced the
\* session's current handle: a handle written by dcgmStartEmbedded is never
\* torn down with dcgmDisconnect, one written by dcgmConnect_v2 never with
\* dcgmStopEmbedded.
C2_TeardownMatchesConnect ==
    op.name = "shutdown" =>
        /\ (origin = "dcgmStartEmbedded" => "dcgmDisconnect" \notin CalledFns)
        /\ (origin = "dcgmConnect_v2" => "dcgmStopEmbedded" \notin CalledFns)

\* C3: new(Standalone, args) with fewer than two arguments fails with a local
\* validation error and has made no native call.
C3_ShortArgsNoNativeCall ==
    (op.name = "new" /\ op.mode = "Standalone" /\ Len(op.args) < 2) =>
        /\ res.kind = "Err"
        /\ res.msg.src = "static"
        /\ Len(calls) = 0

\* Some flag argument of a Standalone argument list does not parse.
BadFlag(args) ==
    /\ Len(args) >= 2
    /\ \/ parse_u32(args[2]) = -1
       \/ Len(args) >= 3 /\ parse_u32(args[3]) = -1

\* C4: new(Standalone, args) whose socket-type or persistence argument does
\* not parse returns an error value: it does not abort and does not issue
\* the connect call.
C4_BadFlagIsError ==
    (op.name = "new" /\ op.mode = "Standalone" /\ BadFlag(op.args)) =>
        /\ res.kind = "Err"
        /\ "dcgmConnect_v2" \notin CalledFns

\* C5: new(StartHostengine, args), once the library is loaded, fails for
\* every argument list and every answer of the native calls, with the
\* "Not implemented" error, and no session in StartHostengine mode exists.
C5_StartHostengineNotImplemented ==
    /\ (op.name = "new" /\ op.mode = "StartHostengine" /\ DCGM_LIB = "Ok") =>
           res = Err(StaticErr("Not implemented"))
    /\ session.live => session.stop_mode # "StartHostengine"

\* C6: the handle is zero until a native connect has written it, and zero
\* again once shutdown() has completed.
C6_HandleInvalidOutsideConnection ==
    /\ (session.live /\ origin = "none") => session.handle = 0
    /\ (op.name = "shutdown" /\ res.kind = "Ok") => session.handle = 0

\* The error get_error_msg builds for `code`, given the errorString call made.
TranslatedFrom(code) ==
    \E i \in 1..Len(calls) :
        /\ calls[i].fn = "errorString"
        /\ calls[i].arg = code
        /\ res.msg = IF calls[i].st = "null" THEN UnknownErr(code) ELSE NativeErr(code)

\* The one status the wrapper documents as an ok result (see C10).
TopologyNotSupported(c) ==
    c.fn = "dcgmGetDeviceTopology" /\ c.st = ST_NOT_SUPPORTED

\* C7: for every native call of an operation, a success status yields no
\* native error, and any other status yields an error value (never an abort,
\* never an ok result) whose message is the library's string for that code,
\* or the "Unknown DCGM error <code>" fallback.  (The not-supported answer
\* of dcgmGetDeviceTopology is granted as an exception here, so that what
\* refutes the statement is an abort.)
C7_EveryStatusTranslated ==
    /\ \A i \in 1..Len(NativeCalls) :
          (NativeCalls[i].st # ST_OK /\ ~TopologyNotSupported(NativeCalls[i])) =>
              res.kind = "Err" /\ TranslatedFrom(NativeCalls[i].st)
    /\ (\A i \in 1..Len(NativeCalls) : NativeCalls[i].st = ST_OK) =>
          (res.kind = "Err" => res.msg.src = "static")

\* C8: selectGpusByTopology with an id above 63 in the set fails with the
\* out-of-range error and never reaches the native call, whatever else the
\* set holds and in whatever order it is visited.
C8_OutOfRangeBeforeNative ==
    (op.name = "selectGpusByTopology" /\ \E g \in op.input.gpuIds : g > 63) =>
        /\ res = Err(StaticErr("gpu value out of bounds"))
        /\ Len(calls) = 0

C8_Witness ==
    /\ op.name = "selectGpusByTopology"
    /\ op.input.gpuIds = {0, 63, 64}
    /\ res.kind = "Err"

\* C9: the mask handed to dcgmSelectGpusByTopology has bit i set exactly when
\* i is in the id set; a mask returned with success decodes to exactly the
\* positions of its set bits; the decode loop terminates.
C9_BitmaskRoundTrip ==
    op.name = "selectGpusByTopology" =>
        /\ res.kind # "Hang"
        /\ Len(calls) >= 1 =>
              BitsOf(calls[1].arg.inputGpuIds) = op.input.gpuIds
        /\ res.kind = "Ok" =>
              res.val = BitsOf(calls[1].arg.outputGpuIds)

C9_Witness ==
    /\ op.name = "selectGpusByTopology"
    /\ op.input.gpuIds = {0, 1, 63}
    /\ res.kind = "Ok"
    /\ calls[1].arg.outputGpuIds = MaskOf(0..63)
    /\ res.val = 0..63

\* C10: getDeviceTopology yields Ok with an empty sequence when
\* dcgmGetDeviceTopology reports not-supported, with no attribute fetch and
\* no errorString call.
C10_NotSupportedIsEmpty ==
    (op.name = "getDeviceTopology" /\ calls[1].st = ST_NOT_SUPPORTED) =>
        /\ res.kind = "Ok"
        /\ res.val = <<>>
        /\ Fns(calls) = <<"dcgmGetDeviceTopology">>

C10_Witness ==
    /\ op.name = "getDeviceTopology"
    /\ calls[1].st = ST_NOT_SUPPORTED
    /\ res.kind = "Ok"

\* getDeviceTopology answered with a sequence after a native topology
\* call that did not report not-supported.
TopologyListed ==
    /\ op.name = "getDeviceTopology"
    /\ calls[1].st # ST_NOT_SUPPORTED
    /\ res.kind = "Ok"

\* Record i of the result carries the gpu id and path of reported peer i.
RecordsMatchPeers ==
    \A i \in 1..Len(res.val) :
        /\ res.val[i].gpu = op.input.topo.gpuPaths[i].gpuId
        /\ res.val[i].link = op.input.topo.gpuPaths[i].path

\* C11, as stated: when the native topology call does not report
\* not-supported and getDeviceTopology returns a result, the result is a
\* non-empty sequence whose length is the reported numGpus, record i carrying
\* the gpu id and path of peer i.
C11_Original ==
    TopologyListed =>
        /\ Len(res.val) >= 1
        /\ Len(res.val) = op.input.topo.numGpus
        /\ RecordsMatchPeers

\* C11, amended: the result has one record per reported peer, in order, so
\* its length is the reported numGpus; it is empty when the library reports
\* no peer.
C11_OneRecordPerPeer ==
    TopologyListed =>
        /\ Len(res.val) = op.input.topo.numGpus
        /\ RecordsMatchPeers

C11_Witness ==
    /\ TopologyListed
    /\ op.input.topo.numGpus = 2
    /\ Len(res.val) = 2
    /\ res.val[2].gpu = op.input.topo.gpuPaths[2].gpuId

\* C12: watchFields issues dcgmWatchFields first; when that returns success
\* it next issues dcgmUpdateAllFields with waitForUpdate = 1 and nothing
\* else; when it fails no update is issued.  The result is Ok exactly when
\* both calls returned success, and otherwise the error translated from the
\* status of the call that failed.
C12_WatchThenForcedUpdate ==
    op.name = "watchFields" =>
        /\ Len(NativeCalls) >= 1
        /\ NativeCalls[1].fn = "dcgmWatchFields"
        /\ IF NativeCalls[1].st = ST_OK
           THEN /\ NativeFns = <<"dcgmWatchFields", "dcgmUpdateAllFields">>
                /\ calls[2] = NativeCalls[2]
                /\ NativeCalls[2].arg.waitForUpdate = 1
                /\ NativeCalls[2].arg.handle = session.handle
                /\ IF NativeCalls[2].st = ST_OK
                   THEN res = Ok(Unit)
                   ELSE res.kind = "Err" /\ TranslatedFrom(NativeCalls[2].st)
           ELSE /\ NativeFns = <<"dcgmWatchFields">>
                /\ res.kind = "Err"
                /\ TranslatedFrom(NativeCalls[1].st)

C12_Witness ==
    /\ op.name = "watchFields"
    /\ res.kind = "Err"
    /\ NativeFns = <<"dcgmWatchFields", "dcgmUpdateAllFields">>
    /\ NativeCalls[2].st = ST_BADPARAM

PcieLabels == {"PSB", "PIX", "PXB", "PHB", "NODE", "SYS"}
PcieClassValues ==
    {DCGM_TOPOLOGY_BOARD, DCGM_TOPOLOGY_SINGLE, DCGM_TOPOLOGY_MULTIPLE,
     DCGM_TOPOLOGY_HOSTBRIDGE, DCGM_TOPOLOGY_CPU, DCGM_TOPOLOGY_SYSTEM}
NvLabelSet == { NvLabels[k] : k \in 1..NvLinkClasses }
Labelled == op.name = "p2p_connectivity_to_string"

\* Each label is the one the function gives to the value's own plane alone.
LabelsDependOnOwnPlane ==
    /\ res.val.pcie = p2p_pcie_connectivity_to_string(LowByte(op.input.link))
    /\ res.val.nvlink = p2p_nvlink_connectivity_to_string(AboveLowByte(op.input.link))

\* C13, as stated: for every raw value, only low-byte bits set gives a PCIe
\* class label and the NVLink label "ERR"; only bits above the low byte set
\* gives an NVLink label NV1..NV18 and the PCIe label "ERR"; each label
\* depends only on its own plane.
C13_Original ==
    Labelled =>
        LET link == op.input.link
        IN  /\ (link # 0 /\ AboveLowByte(link) = 0) =>
                  res.val.pcie \in PcieLabels /\ res.val.nvlink = "ERR"
            /\ (link # 0 /\ LowByte(link) = 0) =>
                  res.val.nvlink \in NvLabelSet /\ res.val.pcie = "ERR"
            /\ LabelsDependOnOwnPlane

\* C13, amended: the PCIe label is a class label exactly when the low byte
\* is one of the six class values, "N/A" when the low byte is zero and "ERR"
\* otherwise; the NVLink label is NVk exactly when the bits above the low
\* byte are the single value of class k (k in 1..18) and "ERR" otherwise,
\* in particular when none of them is set; each label depends only on its
\* own plane.
C13_LabelsByPlane ==
    Labelled =>
        LET lo == LowByte(op.input.link)
            hi == AboveLowByte(op.input.link)
        IN  /\ (lo \in PcieClassValues <=> res.val.pcie \in PcieLabels)
            /\ (lo = 0 <=> res.val.pcie = "N/A")
            /\ (lo \notin PcieClassValues \cup {0} <=> res.val.pcie = "ERR")
            /\ \A k \in 1..NvLinkClasses :
                  hi = DCGM_TOPOLOGY_NVLINK(k) <=> res.val.nvlink = NvLabels[k]
            /\ (hi = 0 => res.val.nvlink = "ERR")
            /\ res.val.nvlink \in NvLabelSet \cup {"ERR"}
            /\ LabelsDependOnOwnPlane

C13_Witness ==
    /\ Labelled
    /\ op.input.link = DCGM_TOPOLOGY_NVLINK(18) + DCGM_TOPOLOGY_SYSTEM
    /\ res.val = [pcie |-> "SYS", nvlink |-> "NV18"]

LoadError == Err(StaticErr("Failed to load DCGM library"))

\* C14: the initialiser of DCGM_LIB runs at most once, in the first call to
\* new; a call to new that finds the failed result returns the load error
\* for every mode and argument list, makes no native call and does not run
\* the initialiser again.
C14_LoadedOnceFailureKept ==
    /\ loadRuns <= 1
    /\ (loadRuns = 0 <=> DCGM_LIB = "uninit")
    /\ op.name = "new" =>
          /\ loadRuns = 1
          /\ DCGM_LIB = "Err" => res = LoadError /\ Len(calls) = 0

C14_Witness ==
    /\ op.name = "new"
    /\ ~op.input.firstUse
    /\ op.mode = "Standalone"
    /\ Len(op.args) = 3
    /\ DCGM_LIB = "Err"
    /\ res = LoadError

\* The struct revision held in the top byte of a version tag.
Revision(version) == version \div Shl(1, 24)

\* C15: every dcgmConnect_v2 call of a Standalone connect is issued against
\* args[0] with a descriptor whose timeoutMs is 3000000, whose version tag
\* holds revision 2, whose socket-type flag is the parsed second argument,
\* and whose persistence flag is the parsed third argument whenever the list
\* has three or more arguments (and the third parses) and 0 when it has two.
C15_ConnectDescriptor ==
    \A i \in 1..Len(calls) :
        calls[i].fn = "dcgmConnect_v2" =>
            LET p == calls[i].arg.params
            IN  /\ calls[i].arg.addr = op.args[1]
                /\ p.timeoutMs = ConnectTimeoutMs
                /\ Revision(p.version) = 2
                /\ p.addressIsUnixSocket = parse_u32(op.args[2])
                /\ Len(op.args) < 3 => p.persistAfterDisconnect = 0
                /\ (Len(op.args) >= 3 /\ parse_u32(op.args[3]) # -1) =>
                      p.persistAfterDisconnect = parse_u32(op.args[3])

\* C16: getAllSupportedDevices and getEntityGroupEntites, on a success
\* status, return exactly the first `count` entries the native call wrote,
\* in order, and never more entries than the buffer holds, whatever count
\* is reported; on any other status they return an error.
C16_PrefixWithinCapacity ==
    op.name \in {"getAllSupportedDevices", "getEntityGroupEntites"} =>
        IF calls[1].st = ST_OK
        THEN /\ res.kind = "Ok"
             /\ Len(res.val) <= DCGM_MAX_NUM_DEVICES
             /\ Len(res.val) = op.input.rep.count
             /\ res.val = SubSeq(op.input.rep.ids, 1, Len(res.val))
        ELSE res.kind = "Err" /\ TranslatedFrom(calls[1].st)

\* The native calls that release what init or a connect acquired.
ReleaseFns == {"dcgmShutdown", "dcgmStopEmbedded", "dcgmDisconnect"}

\* new ran, dcgmInit returned success and the connect step failed: the mode
\* is StartHostengine, the Standalone argument list is too short, or the
\* native connect call returned a non-success status.
ConnectFailedAfterInit ==
    /\ op.name = "new"
    /\ Len(NativeCalls) >= 1
    /\ NativeCalls[1].fn = "dcgmInit"
    /\ NativeCalls[1].st = ST_OK
    /\ \/ op.mode = "StartHostengine"
       \/ op.mode = "Standalone" /\ Len(op.args) < 2
       \/ Len(NativeCalls) >= 2 /\ NativeCalls[2].st # ST_OK

\* C17: when dcgmInit succeeded and the connect step of new failed, new
\* returns an error having issued no release call (dcgmShutdown,
\* dcgmStopEmbedded, dcgmDisconnect), and hands no session to the caller:
\* the caller's session, if any, is the one it had before.
C17_NoReleaseOnFailedConnect ==
    /\ [](ConnectFailedAfterInit =>
            /\ res.kind = "Err"
            /\ CalledFns \cap ReleaseFns = {}
            /\ Len(NativeCalls) <= 2)
    /\ [][ConnectFailedAfterInit' => UNCHANGED <<session, ctor, origin>>]_vars

C17_Witness ==
    /\ ConnectFailedAfterInit
    /\ op.mode = "Embedded"
    /\ NativeFns = <<"dcgmInit", "dcgmStartEmbedded">>
    /\ res.kind = "Err"

\* A latest-values query ran with an empty list among its inputs.
EmptyListQuery ==
    \/ /\ op.name = "entitiesGetLatestValues"
       /\ Len(op.input.entities) = 0 \/ Len(op.input.fields) = 0
    \/ /\ op.name = "entityGetLatestValues"
       /\ Len(op.input.fields) = 0

\* C18: entitiesGetLatestValues with an empty entity list or an empty field
\* list, and entityGetLatestValues with an empty field list, panic on
\* indexing the empty sequence: no native call (and no errorString call) is
\* made, and neither an Ok nor an error value is returned.
C18_EmptyListsFaultBeforeNative ==
    EmptyListQuery =>
        /\ res.kind = "Panic"
        /\ Len(calls) = 0
        /\ ~alive

C18_Witness ==
    /\ op.name = "entitiesGetLatestValues"
    /\ Len(op.input.entities) = 2
    /\ Len(op.input.fields) = 0
    /\ res.kind = "Panic"

\* The mode-specific first step of shutdown().
FirstStep(m) ==
    IF m = "Embedded" THEN "dcgmStopEmbedded"
    ELSE IF m = "Standalone" THEN "dcgmDisconnect"
    ELSE "-"

\* shutdown() ran and its first step returned a non-success status.
FirstStepFailed ==
    /\ op.name = "shutdown"
    /\ Len(NativeCalls) >= 1
    /\ NativeCalls[1].st # ST_OK

\* C19: shutdown() starts with the first step of the session's mode, on the
\* session's handle, and issues dcgmShutdown exactly when that step returned
\* success.  When the step fails, shutdown returns the error of that step
\* and issues no dcgmShutdown; shutdown leaves the session's mode and handle
\* as they were, so the next shutdown() starts with the same step on the
\* same handle.
C19_ShutdownAfterFirstStepOnly ==
    /\ [](op.name = "shutdown" =>
            /\ Len(NativeCalls) >= 1
            /\ NativeCalls[1].fn = FirstStep(session.stop_mode)
            /\ NativeCalls[1].arg = session.handle
            /\ ("dcgmShutdown" \in CalledFns <=> NativeCalls[1].st = ST_OK)
            /\ FirstStepFailed =>
                  /\ res.kind = "Err"
                  /\ TranslatedFrom(NativeCalls[1].st)
                  /\ Len(NativeCalls) = 1)
    /\ [][FirstStepFailed' => UNCHANGED session]_vars

C19_Witness ==
    /\ FirstStepFailed
    /\ session.stop_mode = "Embedded"
    /\ NativeFns = <<"dcgmStopEmbedded">>
    /\ res.kind = "Err"

\* C20: getNvLinkLinkStatus, after a success status, returns
\* numGpus * DCGM_NVLINK_MAX_LINKS_PER_GPU GPU records followed by
\* numNvSwitches * DCGM_NVLINK_MAX_LINKS_PER_NVSWITCH switch records; the
\* switch record of (i, j) carries the entity id and j-th link state of the
\* i-th NvSwitch entry, and no index leaves its array (no panic).
C20_SwitchRecordsFromSwitchEntries ==
    (op.name = "getNvLinkLinkStatus" /\ calls[1].st = ST_OK) =>
        LET ls == op.input.ls
            g == ls.numGpus * DCGM_NVLINK_MAX_LINKS_PER_GPU
            w == ls.numNvSwitches * DCGM_NVLINK_MAX_LINKS_PER_NVSWITCH
        IN  /\ res.kind = "Ok"
            /\ Len(res.val) = g + w
            /\ \A k \in 1..g : res.val[k].parent_type = "DCGM_FE_GPU"
            /\ \A i \in 1..ls.numNvSwitches :
               \A j \in 1..DCGM_NVLINK_MAX_LINKS_PER_NVSWITCH :
                  LET r == res.val[g + (i - 1) * DCGM_NVLINK_MAX_LINKS_PER_NVSWITCH + j]
                  IN  /\ r.parent_type = "DCGM_FE_SWITCH"
                      /\ r.parent_id = ls.nvSwitches[i].entityId
                      /\ r.state = ls.nvSwitches[i].linkState[j]
                      /\ r.index = j - 1

====
